---- MODULE Spec2Model ----
(***************************************************************************)
(* Model of lib/userfunctions.py (the user-module loader) and of the       *)
(* Beaufort / speed conversions of lib/env/__init__.py.                    *)
(*                                                                         *)
(* Strings that the code inspects character by character (file names and   *)
(* the module names derived from them) are sequences of one-character      *)
(* strings, so that endswith, split and sorted are computed, not assumed.  *)
(* Real numbers are exact rationals <<numerator, denominator>>.            *)
(***************************************************************************)
EXTENDS Integers, Sequences, FiniteSets, TLC

\* ------------------------------------------------------------------------
\* Bounds of the model
\* ------------------------------------------------------------------------
\* largest number of entries os.listdir returns in one init_lib call
MaxFiles == 2
\* number of distinct code versions a user module is seen in
MaxVer == 2

\* ------------------------------------------------------------------------
\* Python strings
\* ------------------------------------------------------------------------
\* the characters that occur, in code-point order
Chars ==
  << "-", ".",
     "0", "1", "2", "3", "4", "5", "6", "7", "8", "9",
     "_",
     "a", "b", "c", "d", "e", "f", "g", "h", "i", "j", "k", "l", "m",
     "n", "o", "p", "q", "r", "s", "t", "u", "v", "w", "x", "y", "z" >>

Ord(c) == CHOOSE i \in 1..Len(Chars) : Chars[i] = c

\* str.__lt__ : lexicographic comparison by code point
StrLt(a, b) ==
  \E k \in 1..(Len(a) + 1) :
     /\ \A i \in 1..(k - 1) : i <= Len(b) /\ a[i] = b[i]
     /\ \/ k = Len(a) + 1 /\ k <= Len(b)
        \/ k <= Len(a) /\ k <= Len(b) /\ Ord(a[k]) < Ord(b[k])

\* f.endswith(suffix)
endswith(f, suffix) ==
  /\ Len(f) >= Len(suffix)
  /\ SubSeq(f, Len(f) - Len(suffix) + 1, Len(f)) = suffix

\* f.split(".")[0] : the part of f before its first dot
split0(f) ==
  LET dots == { i \in 1..Len(f) : f[i] = "." }
      first == IF dots = {} THEN Len(f) + 1
               ELSE CHOOSE i \in dots : \A j \in dots : i <= j
  IN  SubSeq(f, 1, first - 1)

\* str.isidentifier() for the characters of Chars (no keyword is among the
\* names of the model): decides whether the statements that import_user_module
\* and reload build by interpolating the name compile as a name reference
IdStart == { Chars[i] : i \in 13..Len(Chars) }
IdChars == { Chars[i] : i \in 3..Len(Chars) }
IsIdentifier(n) ==
  /\ Len(n) > 0
  /\ n[1] \in IdStart
  /\ \A i \in 1..Len(n) : n[i] \in IdChars

RECURSIVE Insert(_, _)
Insert(s, x) ==
  IF s = << >> THEN << x >>
  ELSE IF StrLt(x, Head(s)) THEN << x >> \o s
  ELSE << Head(s) >> \o Insert(Tail(s), x)

\* sorted(list): ascending, duplicates kept
RECURSIVE sorted(_)
sorted(s) == IF s = << >> THEN << >> ELSE Insert(sorted(Tail(s)), Head(s))

Range(s) == { s[i] : i \in 1..Len(s) }

\* ------------------------------------------------------------------------
\* The functions directory
\* ------------------------------------------------------------------------
py == << ".", "p", "y" >>
F_foo == << "f", "o", "o", ".", "p", "y" >>
F_foo_bar == << "f", "o", "o", ".", "b", "a", "r", ".", "p", "y" >>
F_a_b == << "a", "-", "b", ".", "p", "y" >>
F_os == << "o", "s", ".", "p", "y" >>
F_reload == << "r", "e", "l", "o", "a", "d", ".", "p", "y" >>
F_txt == << "f", "o", "o", ".", "t", "x", "t" >>

\* the file names a functions directory is populated with
FileNames == { F_foo, F_foo_bar, F_a_b, F_os, F_reload, F_txt }

N_foo == << "f", "o", "o" >>
N_a_b == << "a", "-", "b" >>
N_os == << "o", "s" >>
N_reload == << "r", "e", "l", "o", "a", "d" >>

\* the names userfunctions.py can be asked about
ModNames == { split0(f) : f \in FileNames } \cup { N_os, N_reload }

\* os.listdir(_func_dir) returns the entries in arbitrary order; sorted()
\* makes the registry independent of it, so one order is taken
RECURSIVE listdir(_)
listdir(d) ==
  IF d = {} THEN << >>
  ELSE LET f == CHOOSE x \in d : TRUE IN << f >> \o listdir(d \ { f })

Listings == { d \in SUBSET FileNames : Cardinality(d) <= MaxFiles }

\* ------------------------------------------------------------------------
\* State of lib.userfunctions
\* ------------------------------------------------------------------------
VARIABLES
  \* _func_dir: "None" or the joined path
  _func_dir,
  \* _user_modules: the registry, a list of module names
  _user_modules,
  \* globals() of lib.userfunctions restricted to ModNames: what each name is
  \* bound to (import_user_module writes user modules into it)
  glob,
  \* what os.listdir returned to the last init_lib ({} when not a directory)
  listing,
  \* the last call made by the host: function, argument, outcome and the
  \* calls it made to import_user_module / reload / importlib, in order
  op,
  \* lib.env: the last conversion applied, its inputs and results
  env

vars == << _func_dir, _user_modules, glob, listing, op, env >>

Unbound == [kind |-> "unbound", code |-> 0]
\* "import os" at module level
StdModule == [kind |-> "stdmodule", code |-> 0]
\* "def reload(userlib)" at module level
Function == [kind |-> "function", code |-> 0]
\* a module object of functions.<name>, running version code of its file
UserModule(v) == [kind |-> "usermodule", code |-> v]

\* the module-level bindings of userfunctions.py among ModNames
InitialGlobals ==
  [ n \in ModNames |->
      IF n = N_os THEN StdModule
      ELSE IF n = N_reload THEN Function
      ELSE Unbound ]

Exceptions == { "SyntaxError", "AttributeError", "TypeError" }

\* outcomes of importlib.reload(module): it returns, it raises an exception
\* whose text is "name '<userlib>' is not defined", or it raises any other
ReloadOutcomes == { "ok", "nameerror", "error" }

\* os.getcwd() and the shng_base_dir arguments passed to init_lib
cwd == "/home/smarthome"
BaseDirArgs == { "None", "/usr/local/smarthome" }

\* os.path.join(base_dir, _uf_subdir)
_uf_subdir == "functions"
join(a, b) == a \o "/" \o b

\* os.path.isdir: the file system has a functions directory below the
\* working directory and none below /usr/local/smarthome
isdir(path) == path = join(cwd, _uf_subdir)

\* ------------------------------------------------------------------------
\* lib.env: speeds are exact rationals << numerator, denominator >> with a
\* positive denominator (the rounding of Python floats is not modelled)
\* ------------------------------------------------------------------------
\* how far, in hundredths, the sampled speeds reach around each threshold
MaxStep == 1

Rat(n, d) == << n, d >>
RatLeq(a, b) == a[1] * b[2] <= b[1] * a[2]
RatLt(a, b) == a[1] * b[2] < b[1] * a[2]
RatEq(a, b) == a[1] * b[2] = b[1] * a[2]
\* a / b for b > 0
RatDiv(a, b) == << a[1] * b[2], a[2] * b[1] >>
RatMul(a, b) == << a[1] * b[1], a[2] * b[2] >>

\* what a call of lib.env gives its caller: an int, None, or an exception
RetInt(v) == [kind |-> "int", val |-> v]
RetNone == [kind |-> "None", val |-> 0]
Raises(e) == [kind |-> e, val |-> 0]
\* a float, kept as the exact rational
RetFloat(q) == [kind |-> "float", val |-> q]
NoResult == [kind |-> "", val |-> 0]

\* 1 mile is 1609.344 meters long
_mile == Rat(1609344, 1000)

\* 1 nm is 1852 meters long
_nautical_mile == 1852

\* kn_to_kmh(speed), lines 51-58: speed * _nautical_mile
kn_to_kmh(speed) == RetFloat(RatMul(speed, Rat(_nautical_mile, 1)))

\* kmh_to_kn(speed), lines 61-68: speed / _nautical_mile
kmh_to_kn(speed) == RetFloat(RatDiv(speed, Rat(_nautical_mile, 1)))

\* Env.kn_to_kmh(speed_in_kn), lines 414-422: speed_in_kn * 1.852
Env_kn_to_kmh(speed_in_kn) == RetFloat(RatMul(speed_in_kn, Rat(1852, 1000)))

\* Env.kmh_to_kn(speed_in_kmh), lines 425-433: speed_in_kmh / 1.852
Env_kmh_to_kn(speed_in_kmh) == RetFloat(RatDiv(speed_in_kmh, Rat(1852, 1000)))

\* the table with the Beaufort numbers of two neighbouring rows exchanged
table_swapped ==
  << << Rat(3, 10), 0 >>, << Rat(16, 10), 1 >>, << Rat(34, 10), 2 >>,
     << Rat(55, 10), 3 >>, << Rat(80, 10), 5 >>, << Rat(108, 10), 4 >>,
     << Rat(139, 10), 6 >>, << Rat(172, 10), 7 >>, << Rat(208, 10), 8 >>,
     << Rat(245, 10), 9 >>, << Rat(285, 10), 10 >>, << Rat(327, 10), 11 >>,
     << Rat(999, 1), 12 >> >>

\* the table literal of ms_to_bft: rows (threshold in m/s, Beaufort number)
table ==
  << << Rat(3, 10), 0 >>, << Rat(16, 10), 1 >>, << Rat(34, 10), 2 >>,
     << Rat(55, 10), 3 >>, << Rat(80, 10), 4 >>, << Rat(108, 10), 5 >>,
     << Rat(139, 10), 6 >>, << Rat(172, 10), 7 >>, << Rat(208, 10), 8 >>,
     << Rat(245, 10), 9 >>, << Rat(285, 10), 10 >>, << Rat(327, 10), 11 >>,
     << Rat(999, 1), 12 >> >>

\* the table literal of Env.mps_to_beaufort
Env_table ==
  << << Rat(3, 10), 0 >>, << Rat(16, 10), 1 >>, << Rat(34, 10), 2 >>,
     << Rat(55, 10), 3 >>, << Rat(80, 10), 4 >>, << Rat(108, 10), 5 >>,
     << Rat(139, 10), 6 >>, << Rat(172, 10), 7 >>, << Rat(208, 10), 8 >>,
     << Rat(245, 10), 9 >>, << Rat(285, 10), 10 >>, << Rat(327, 10), 11 >>,
     << Rat(999, 1), 12 >> >>

\* filter(lambda x: x[0] >= speed, tab)
filter_ge(tab, speed) == { i \in 1..Len(tab) : RatLeq(speed, tab[i][1]) }

\* comparison of two rows as Python tuples
RowLeq(a, b) == RatLt(a[1], b[1]) \/ (RatEq(a[1], b[1]) /\ a[2] <= b[2])

\* min(filter(...))[1]: the second item of the smallest row left by the
\* filter; min of an empty sequence raises ValueError
min_filter(tab, speed) ==
  LET rows == filter_ge(tab, speed)
  IN  IF rows = {} THEN Raises("ValueError")
      ELSE LET i == CHOOSE i \in rows : \A j \in rows : RowLeq(tab[i], tab[j])
           IN  RetInt(tab[i][2])

\* ms_to_bft(speed), lines 119-147: any Exception becomes -1
ms_to_bft(speed) ==
  LET r == min_filter(table, speed)
  IN  IF r.kind = "int" THEN r ELSE RetInt(-1)

\* Env.mps_to_beaufort(speed_in_mps), lines 304-331: ValueError becomes None
Env_mps_to_beaufort(speed_in_mps) ==
  LET r == min_filter(Env_table, speed_in_mps)
  IN  IF r.kind = "ValueError" THEN RetNone ELSE r

\* kmh_to_ms(speed), lines 85-96: speed / 3.6
kmh_to_ms(speed) == RatDiv(speed, Rat(36, 10))

\* kmh_to_mps(speed), lines 109-116: speed / 3.6 / _mile
kmh_to_mps(speed) == RatDiv(RatDiv(speed, Rat(36, 10)), _mile)

\* kmh_to_bft(speed), lines 150-159
kmh_to_bft(speed) == ms_to_bft(kmh_to_ms(speed))

\* the names bound at module level of lib/env/__init__.py: the imports, the
\* constants, the free functions and the class
EnvGlobals ==
  { "logging", "_logger", "_mile", "_nautical_mile",
    "kn_to_kmh", "kmh_to_kn", "ms_to_kmh", "kmh_to_ms", "mps_to_kmh",
    "kmh_to_mps", "ms_to_bft", "kmh_to_bft", "bft_to_text",
    "_miles_to_meter", "_nauticalmiles_to_meter", "_meter_to_miles",
    "_meter_to_nauticalmiles", "Env" }

\* Env.kmh_to_beaufort(speed_in_kmh), lines 334-343: a static method whose
\* body refers to mps_to_beaufort and kmh_to_mps as global names
Env_kmh_to_beaufort(speed_in_kmh) ==
  IF "mps_to_beaufort" \notin EnvGlobals THEN Raises("NameError")
  ELSE IF "kmh_to_mps" \notin EnvGlobals THEN Raises("NameError")
  ELSE Env_mps_to_beaufort(kmh_to_mps(speed_in_kmh))

\* the thresholds of the table in hundredths of a m/s
Thresholds == { (table[i][1][1] * 100) \div table[i][1][2] : i \in 1..Len(table) }

\* the sampled speeds: around zero and around every threshold in steps of
\* 0.01, and the thresholds converted to km/h
SpeedNums ==
  UNION { { t + k : k \in (0 - MaxStep)..MaxStep } : t \in Thresholds \cup { 0 } }
    \cup { (t * 36) \div 10 : t \in Thresholds }
Speeds == { Rat(n, 100) : n \in SpeedNums }

NoEnv == [fn |-> "", x |-> Rat(0, 1), y |-> Rat(0, 1), rx |-> NoResult, ry |-> NoResult]

Init ==
  /\ _func_dir = "None"
  /\ _user_modules = << >>
  /\ glob = InitialGlobals
  /\ listing = {}
  /\ op = [name |-> "", arg |-> << >>, result |-> "", calls |-> << >>]
  /\ env = NoEnv

\* the loader's state as one value, with the calls made so far by the
\* operation being executed
State ==
  [fd |-> _func_dir, um |-> _user_modules, glob |-> glob, calls |-> << >>]

Call(fn, name, res) == [fn |-> fn, name |-> name, res |-> res]

\* importlib.import_module('functions.<m>'): a module already loaded is
\* returned from sys.modules, a new one is loaded when its file imports (ok)
import_module(g, m, ok) == g[m].kind = "usermodule" \/ ok

\* lines 57-62 and 64-69: exec("globals()[..] = <m>.<attr>") in a try and,
\* when that raises, exec("<m>.<attr> = <default>") outside any try. With a
\* name that is an identifier the module is read, or given the default when
\* it lacks the attribute (the values only reach the log). With any other
\* name the first statement raises and the second does not compile.
\* (A file named after a local variable of import_user_module, such as m.py,
\* makes the second statement raise AttributeError; no such file is among
\* FileNames.)
exec_metadata(m) == IF IsIdentifier(m) THEN "ok" ELSE "SyntaxError"

\* import_user_module(m), lines 38-72
import_user_module(st, m, ok) ==
  IF ~import_module(st.glob, m, ok)
  THEN [st |-> [st EXCEPT !.calls = Append(@, Call("import_user_module", m, "False"))],
        res |-> "False"]
  ELSE
    LET g1 == [st.glob EXCEPT ![m] = IF @.kind = "usermodule" THEN @ ELSE UserModule(1)]
        res == IF exec_metadata(m) = "ok" THEN "True" ELSE exec_metadata(m)
    IN  [st |-> [st EXCEPT !.glob = g1,
                           !.calls = Append(@, Call("import_user_module", m, res))],
         res |-> res]

\* the membership test left out: every name counts as registered
in_registry_any(um, userlib) == TRUE

\* line 118: userlib in _user_modules
in_registry(um, userlib) == userlib \in Range(um)

\* line 122: str(e) == f"name '{userlib}' is not defined"
is_not_defined(userlib, message) == message = "nameerror"

\* line 120: exec("importlib.reload(<userlib>)"). Result: "ok", or the kind of
\* exception text: "nameerror" is "name '<userlib>' is not defined".
\* A name that is no identifier never yields that text for itself.
exec_reload(g, userlib, rl) ==
  IF ~IsIdentifier(userlib) THEN "error"
  ELSE IF g[userlib].kind = "unbound" THEN "nameerror"
  ELSE IF g[userlib].kind = "function" THEN "error"
  ELSE rl

\* the module after importlib.reload returned: its file was executed again
reloaded(b) ==
  IF b.kind = "usermodule" THEN UserModule((b.code % MaxVer) + 1) ELSE b

\* reload(userlib), lines 114-138
reload(st, userlib, rl, ok) ==
  IF ~in_registry(st.um, userlib)
  THEN [st |-> st, res |-> "False"]
  ELSE
    LET e == exec_reload(st.glob, userlib, rl)
        called == IsIdentifier(userlib) /\ st.glob[userlib].kind # "unbound"
        st1 == IF called
               THEN [st EXCEPT !.calls = Append(@, Call("importlib.reload", userlib, e))]
               ELSE st
    IN  IF e = "ok"
        THEN [st |-> [st1 EXCEPT !.glob[userlib] = reloaded(@)], res |-> "True"]
        ELSE IF is_not_defined(userlib, e)
        THEN import_user_module(st1, userlib, ok)
        ELSE [st |-> st1, res |-> "False"]

\* reload_all(), lines 147-151: the loop from position i on
RECURSIVE reload_loop(_, _, _, _, _)
reload_loop(st, i, result, rlf, okset) ==
  IF i > Len(st.um) THEN [st |-> st, res |-> result]
  ELSE IF st.glob[N_reload].kind # "function"
  THEN [st |-> st, res |-> "TypeError"]
  ELSE
    LET lib == st.um[i]
        r0 == reload(st, lib, IF lib \in DOMAIN rlf THEN rlf[lib] ELSE "ok",
                     lib \in okset)
        r == [r0 EXCEPT !.st.calls =
                st.calls \o << Call("reload", lib, r0.res) >>
                         \o SubSeq(r0.st.calls, Len(st.calls) + 1, Len(r0.st.calls))]
    IN  IF r.res \in Exceptions THEN r
        ELSE reload_loop(r.st, i + 1,
                         IF r.res = "True" THEN result ELSE "False",
                         rlf, okset)

\* reload_all(), lines 141-151
reload_all(st, rlf, okset) ==
  IF st.um = << >> THEN [st |-> st, res |-> "False"]
  ELSE reload_loop(st, 1, "True", rlf, okset)

\* lines 94-99: the names of the .py entries, in listing order
RECURSIVE user_modules(_)
user_modules(wrk) ==
  IF wrk = << >> THEN << >>
  ELSE IF endswith(Head(wrk), py)
       THEN << split0(Head(wrk)) >> \o user_modules(Tail(wrk))
       ELSE user_modules(Tail(wrk))

\* lines 104-105: the import loop from position i on
RECURSIVE import_loop(_, _, _)
import_loop(st, i, okset) ==
  IF i > Len(st.um) THEN [st |-> st, res |-> "None"]
  ELSE LET r == import_user_module(st, st.um[i], st.um[i] \in okset)
       IN  IF r.res \in Exceptions THEN r
           ELSE import_loop(r.st, i + 1, okset)

\* init_lib(shng_base_dir), lines 75-106. os.getcwd and os.path are looked
\* up in whatever the global os is bound to when the call is made.
init_lib(st, shng_base_dir, wrk, okset) ==
  IF st.glob[N_os].kind # "stdmodule"
  THEN [st |-> st, res |-> "AttributeError"]
  ELSE
    LET base_dir == IF shng_base_dir # "None" THEN shng_base_dir ELSE cwd
        fd == join(base_dir, _uf_subdir)
        found == IF isdir(fd) THEN user_modules(listdir(wrk)) ELSE << >>
        st1 == [st EXCEPT !.fd = fd, !.um = sorted(found)]
    IN  import_loop(st1, 1, okset)

\* the host calls one function of lib.userfunctions; r is what it did
Returns(name, arg, r) ==
  /\ _func_dir' = r.st.fd
  /\ _user_modules' = r.st.um
  /\ glob' = r.st.glob
  /\ op' = [name |-> name, arg |-> arg, result |-> r.res, calls |-> r.st.calls]
  /\ UNCHANGED env

\* the names functions.<name> can be freshly imported under when the
\* directory holds the files d: <name>.py is there and not loaded yet
Importable(d) ==
  { n \in ModNames : (n \o py) \in d /\ glob[n].kind # "usermodule" }

\* exec("importlib.reload(<n>)") resolves n to a module object, so that
\* importlib.reload runs and its outcome matters
ResolvesToModule(n) ==
  IsIdentifier(n) /\ glob[n].kind \in { "stdmodule", "usermodule" }

Reloadable == { n \in Range(_user_modules) : ResolvesToModule(n) }

\* the content of the functions directory below the working directory when
\* init_lib runs; the other base directory has none
CallInitLib ==
  \E shng_base_dir \in BaseDirArgs, wrk \in Listings :
    /\ shng_base_dir # "None" => wrk = {}
    /\ \E okset \in SUBSET Importable(wrk) :
      /\ listing' = IF glob[N_os].kind # "stdmodule" THEN listing ELSE wrk
      /\ Returns("init_lib", << >>, init_lib(State, shng_base_dir, wrk, okset))

CallImportUserModule ==
  \E m \in ModNames, ok \in BOOLEAN :
    /\ ok => m \in Importable(FileNames)
    /\ UNCHANGED listing
    /\ Returns("import_user_module", m, import_user_module(State, m, ok))

\* the host holds the function object reload and calls it; the calls made
\* inside the module (line 149) look the name reload up in globals()
CallReload ==
  \E userlib \in ModNames, rl \in ReloadOutcomes, ok \in BOOLEAN :
    \* importlib.reload has an outcome only when it is reached, and so has
    \* the import of a module that is not loaded yet
    /\ rl # "ok" => ResolvesToModule(userlib)
    /\ ok => userlib \in Importable(FileNames)
    /\ UNCHANGED listing
    /\ Returns("reload", userlib, reload(State, userlib, rl, ok))

CallReloadAll ==
  \E rlf \in [Reloadable -> ReloadOutcomes],
     okset \in SUBSET (Range(_user_modules) \cap Importable(FileNames)) :
    /\ UNCHANGED listing
    /\ Returns("reload_all", << >>, reload_all(State, rlf, okset))

Next == CallInitLib \/ CallImportUserModule \/ CallReload \/ CallReloadAll

Spec == Init /\ [][Next]_vars

\* ------------------------------------------------------------------------
\* lib.env: two speeds are drawn, then one conversion is applied to both
\* ------------------------------------------------------------------------
InitEnv ==
  /\ _func_dir = "None"
  /\ _user_modules = << >>
  /\ glob = InitialGlobals
  /\ listing = {}
  /\ op = [name |-> "", arg |-> << >>, result |-> "", calls |-> << >>]
  /\ \E x \in Speeds, y \in Speeds :
       env = [fn |-> "", x |-> x, y |-> y, rx |-> NoResult, ry |-> NoResult]

EnvFrame == UNCHANGED << _func_dir, _user_modules, glob, listing, op >>

CallMsToBft ==
  /\ env.fn = ""
  /\ env' = [env EXCEPT !.fn = "ms_to_bft",
                        !.rx = ms_to_bft(env.x), !.ry = ms_to_bft(env.y)]
  /\ EnvFrame

CallMpsToBeaufort ==
  /\ env.fn = ""
  /\ env' = [env EXCEPT !.fn = "mps_to_beaufort",
                        !.rx = Env_mps_to_beaufort(env.x),
                        !.ry = Env_mps_to_beaufort(env.y)]
  /\ EnvFrame

CallKmhToBft ==
  /\ env.fn = ""
  /\ env' = [env EXCEPT !.fn = "kmh_to_bft",
                        !.rx = kmh_to_bft(env.x), !.ry = kmh_to_bft(env.y)]
  /\ EnvFrame

CallKmhToBeaufort ==
  /\ env.fn = ""
  /\ env' = [env EXCEPT !.fn = "kmh_to_beaufort",
                        !.rx = Env_kmh_to_beaufort(env.x),
                        !.ry = Env_kmh_to_beaufort(env.y)]
  /\ EnvFrame

CallKnToKmh ==
  /\ env.fn = ""
  /\ env' = [env EXCEPT !.fn = "kn_to_kmh",
                        !.rx = kn_to_kmh(env.x), !.ry = kn_to_kmh(env.y)]
  /\ EnvFrame

CallKmhToKn ==
  /\ env.fn = ""
  /\ env' = [env EXCEPT !.fn = "kmh_to_kn",
                        !.rx = kmh_to_kn(env.x), !.ry = kmh_to_kn(env.y)]
  /\ EnvFrame

CallEnvKnToKmh ==
  /\ env.fn = ""
  /\ env' = [env EXCEPT !.fn = "Env.kn_to_kmh",
                        !.rx = Env_kn_to_kmh(env.x), !.ry = Env_kn_to_kmh(env.y)]
  /\ EnvFrame

CallEnvKmhToKn ==
  /\ env.fn = ""
  /\ env' = [env EXCEPT !.fn = "Env.kmh_to_kn",
                        !.rx = Env_kmh_to_kn(env.x), !.ry = Env_kmh_to_kn(env.y)]
  /\ EnvFrame

NextEnv ==
  \/ CallMsToBft \/ CallMpsToBeaufort \/ CallKmhToBft \/ CallKmhToBeaufort
  \/ CallKnToKmh \/ CallKmhToKn \/ CallEnvKnToKmh \/ CallEnvKmhToKn

SpecEnv == InitEnv /\ [][NextEnv]_vars

TypeOK ==
  /\ _func_dir \in { "None", join(cwd, _uf_subdir), join("/usr/local/smarthome", _uf_subdir) }
  /\ Range(_user_modules) \subseteq ModNames
  /\ \A n \in ModNames : glob[n].kind \in { "unbound", "stdmodule", "function", "usermodule" }

\* ------------------------------------------------------------------------
\* The loader's claims
\* ------------------------------------------------------------------------
Imported(n) == glob[n].kind = "usermodule"

\* C1: no loader operation lets an exception escape: init_lib returns
\* normally (None) and import_user_module, reload and reload_all each return
\* a boolean, whatever the file names and the import or reload outcomes.
C1_NoExceptionEscapes ==
  /\ op.name = "init_lib" => op.result = "None"
  /\ op.name \in { "import_user_module", "reload", "reload_all" }
       => op.result \in { "True", "False" }

\* f with its script extension removed
strip_ext(f) == SubSeq(f, 1, Len(f) - Len(py))

\* C2: the registry is sorted, holds no name twice, and every name in it is
\* a .py file name of the listed directory with the extension stripped.
C2_RegistrySortedUniqueStripped ==
  /\ \A i, j \in 1..Len(_user_modules) :
       i < j => ~StrLt(_user_modules[j], _user_modules[i])
  /\ \A i, j \in 1..Len(_user_modules) :
       i # j => _user_modules[i] # _user_modules[j]
  /\ \A i \in 1..Len(_user_modules) :
       \E f \in listing : endswith(f, py) /\ _user_modules[i] = strip_ext(f)

C3_Step ==
  ( /\ op'.name = "reload"
    /\ op'.arg \in Range(_user_modules)
    /\ ~Imported(op'.arg) )
  => /\ Len(op'.calls) = 1
     /\ op'.calls[1].fn = "import_user_module"
     /\ op'.calls[1].name = op'.arg
     /\ op'.result = op'.calls[1].res

\* C3: reload of a registered name whose module is not imported reloads
\* nothing, makes exactly one fresh import_user_module call for that name
\* and returns that call's result.
C3_ReloadOfUnimportedImports == [][C3_Step]_vars

C4_Step ==
  /\ ( /\ op'.name = "reload"
       /\ op'.arg \in Range(_user_modules)
       /\ Imported(op'.arg)
       /\ Len(op'.calls) >= 1
       /\ op'.calls[1].fn = "importlib.reload"
       /\ op'.calls[1].res # "ok" )
     => /\ op'.result = "False"
        /\ glob'[op'.arg] = glob[op'.arg]
  /\ \A n \in ModNames : Imported(n) => glob'[n].kind = "usermodule"

\* C4: when the underlying reload of an imported module raises, whatever the
\* exception text, reload returns False and the module keeps its binding and
\* its code version; an imported module never stops being imported.
C4_FailedReloadKeepsOldVersion == [][C4_Step]_vars

Reloads(calls) == SelectSeq(calls, LAMBDA c : c.fn = "reload")

\* C5: reload_all returns False on an empty registry; otherwise it calls
\* reload once per registry entry, in registry order, also after a failure,
\* and returns True exactly when every one of those calls returned True.
C5_ReloadAllCallsEveryReload ==
  op.name = "reload_all" =>
    IF _user_modules = << >>
    THEN op.result = "False" /\ op.calls = << >>
    ELSE LET rc == Reloads(op.calls)
         IN  /\ Len(rc) = Len(_user_modules)
             /\ \A i \in 1..Len(rc) : rc[i].name = _user_modules[i]
             /\ op.result \in { "True", "False" }
             /\ op.result = "True" <=> \A i \in 1..Len(rc) : rc[i].res = "True"

\* C6: init_lib attempts the import of every discovered module exactly once,
\* in registry order, goes on after a failing import, and afterwards exactly
\* the registered modules whose import succeeded are imported.
C6_InitImportsEveryModuleOnce ==
  op.name = "init_lib" =>
    /\ Len(op.calls) = Len(_user_modules)
    /\ \A i \in 1..Len(op.calls) :
         /\ op.calls[i].fn = "import_user_module"
         /\ op.calls[i].name = _user_modules[i]
    /\ \A i, j \in 1..Len(op.calls) : i # j => op.calls[i].name # op.calls[j].name
    /\ \A i \in 1..Len(op.calls) :
         Imported(op.calls[i].name) <=> op.calls[i].res = "True"

C7_Step ==
  (op'.name = "reload" /\ op'.arg \notin Range(_user_modules))
  => /\ op'.result = "False"
     /\ op'.calls = << >>
     /\ UNCHANGED << _user_modules, _func_dir, glob >>

Zero == Rat(0, 1)
LastThreshold == table[Len(table)][1]
IsBeaufort(r) == r.kind = "int" /\ r.val \in 0..12

\* C8 as stated: for all speeds s >= 0, ms_to_bft(s) and
\* Env.mps_to_beaufort(s) lie in [0,12] and do not decrease when s grows.
C8_AllNonNegativeSpeeds ==
  (env.fn \in { "ms_to_bft", "mps_to_beaufort" } /\ RatLeq(Zero, env.x))
  => /\ IsBeaufort(env.rx)
     /\ RatLeq(env.x, env.y) => (IsBeaufort(env.ry) /\ env.rx.val <= env.ry.val)

\* C8: for all speeds 0 <= s <= 999 (the last threshold), ms_to_bft(s) and
\* Env.mps_to_beaufort(s) lie in [0,12] and do not decrease when s grows;
\* both functions carry the same 13-row table.
C8_SpeedsUpToLastThreshold ==
  /\ Env_table = table
  /\ Len(table) = 13
  /\ ( /\ env.fn \in { "ms_to_bft", "mps_to_beaufort" }
       /\ RatLeq(Zero, env.x)
       /\ RatLeq(env.x, LastThreshold) )
     => /\ IsBeaufort(env.rx)
        /\ (RatLeq(env.x, env.y) /\ RatLeq(env.y, LastThreshold))
             => (IsBeaufort(env.ry) /\ env.rx.val <= env.ry.val)

\* two speeds on both sides of a threshold get different Beaufort numbers
C8_Witness ==
  /\ env.fn = "mps_to_beaufort"
  /\ RatLeq(Zero, env.x)
  /\ RatLt(env.x, env.y)
  /\ RatLeq(env.y, LastThreshold)
  /\ env.rx.kind = "int" /\ env.ry.kind = "int"
  /\ env.rx.val < env.ry.val

\* C9: ms_to_bft returns the Beaufort number of the row with the smallest
\* threshold >= speed, and -1 for every speed that has no classification:
\* every negative speed and every speed above 999.
C9_SentinelForUnclassifiable ==
  env.fn = "ms_to_bft" =>
    IF RatLt(env.x, Zero) \/ RatLt(LastThreshold, env.x)
    THEN env.rx = RetInt(-1)
    ELSE \E i \in 1..Len(table) :
           /\ RatLeq(env.x, table[i][1])
           /\ \A j \in 1..Len(table) :
                RatLeq(env.x, table[j][1]) => RatLeq(table[i][1], table[j][1])
           /\ env.rx = RetInt(table[i][2])

\* C10: kmh_to_bft(v) equals ms_to_bft(v / 3.6), and Env.kmh_to_beaufort(v)
\* returns that same Beaufort number, or a sentinel, and does not raise.
C10_KmhComposesAndNeverRaises ==
  /\ env.fn = "kmh_to_bft" =>
       env.rx = ms_to_bft(RatDiv(env.x, Rat(36, 10)))
  /\ env.fn = "kmh_to_beaufort" =>
       /\ env.rx.kind \in { "int", "None" }
       /\ env.rx.kind = "int" => env.rx.val = ms_to_bft(RatDiv(env.x, Rat(36, 10))).val

\* 1 kn = 1.852 km/h
KmhPerKnot == Rat(1852, 1000)

\* C11: the free functions and the static methods of Env agree: for every
\* speed x, kn_to_kmh(x) = Env.kn_to_kmh(x) = x * 1.852 and
\* kmh_to_kn(x) = Env.kmh_to_kn(x) = x / 1.852.
C11_KnotSurfacesAgree ==
  /\ env.fn = "kn_to_kmh" =>
       /\ RatEq(env.rx.val, Env_kn_to_kmh(env.x).val)
       /\ RatEq(env.rx.val, RatMul(env.x, KmhPerKnot))
  /\ env.fn = "Env.kn_to_kmh" =>
       /\ RatEq(env.rx.val, kn_to_kmh(env.x).val)
       /\ RatEq(env.rx.val, RatMul(env.x, KmhPerKnot))
  /\ env.fn = "kmh_to_kn" =>
       /\ RatEq(env.rx.val, Env_kmh_to_kn(env.x).val)
       /\ RatEq(env.rx.val, RatDiv(env.x, KmhPerKnot))
  /\ env.fn = "Env.kmh_to_kn" =>
       /\ RatEq(env.rx.val, kmh_to_kn(env.x).val)
       /\ RatEq(env.rx.val, RatDiv(env.x, KmhPerKnot))

====
